---- MODULE Spec2Model ----
(***************************************************************************)
(* Model of the foodgram backend: the relational store laid out by         *)
(* recipes/migrations/0002_initial.py and the request handlers of          *)
(* api/views.py (favorite / shopping_cart toggles, the shopping list       *)
(* download, subscriptions, recipe and user deletion).                     *)
(***************************************************************************)
EXTENDS Integers, Sequences, FiniteSets, TLC

VARIABLES users, recipe, next_pk, ingredientrecipe, objects, subscriptions,
          response, inflight

vars == <<users, recipe, next_pk, ingredientrecipe, objects, subscriptions,
          response, inflight>>

\* the tables a request handler of views.py can change
tables == <<users, recipe, next_pk, ingredientrecipe, objects, subscriptions>>

----------------------------------------------------------------------------
\* Bounds of the model.
NumUsers == 2
MaxRecipes == 2
NumWorkers == 2
NumClients == 1

\* rest_framework.status
HTTP_200_OK == 200
HTTP_201_CREATED == 201
HTTP_204_NO_CONTENT == 204
HTTP_400_BAD_REQUEST == 400
HTTP_404_NOT_FOUND == 404
HTTP_500_INTERNAL_SERVER_ERROR == 500

NULL == 0

\* The two 'errors' messages of add_to and delete_from (the source's Russian
\* texts, transliterated).
ALREADY_ADDED == "Retsept uzhe dobavlen!"
ALREADY_REMOVED == "Retsept uzhe udalen!"

UserIds == 1..NumUsers
RecipeIds == 1..MaxRecipes
Workers == 1..NumWorkers
Pairs == UserIds \X RecipeIds

\* the two join tables add_to / delete_from are called with
Favorite == "Favorite"
Shopping_cart == "Shopping_cart"
Models == {Favorite, Shopping_cart}

\* methods=['post', 'delete']
Methods == {"POST", "DELETE"}

\* The Ingredient table: unique on (name, measurement_unit), so two rows may
\* share a name.
Ingredient ==
  <<[name |-> "egg", measurement_unit |-> "pc"],
    [name |-> "flour", measurement_unit |-> "g"],
    [name |-> "flour", measurement_unit |-> "kg"]>>

\* The collation of ingredient names used by ORDER BY.
Collation == <<"egg", "flour">>
NameRank(n) == CHOOSE i \in DOMAIN Collation : Collation[i] = n

\* Request bodies of POST /recipes/: the ingredient lines of a new recipe.
Payloads ==
  { <<[ingredient |-> 1, amount |-> 2], [ingredient |-> 2, amount |-> 100]>>,
    <<[ingredient |-> 1, amount |-> 1], [ingredient |-> 2, amount |-> 50]>>,
    <<[ingredient |-> 3, amount |-> 1], [ingredient |-> 1, amount |-> 2]>> }

\* Staff accounts (IsOwnerOrReadOnly lets the author or an admin mutate).
is_staff(u) == u = 1

----------------------------------------------------------------------------
\* Responses.  Every field is present in every response so that the
\* formulas below can read them uniformly; view is the viewset action that
\* answered.
Response(view, status, errors, data, shopping_list, ctype, disposition) ==
  [view |-> view, status |-> status, errors |-> errors, data |-> data,
   shopping_list |-> shopping_list, content_type |-> ctype,
   disposition |-> disposition]

Plain(view, status) == Response(view, status, "", <<>>, <<>>, "", "")
Errors(view, status, msg) == Response(view, status, msg, <<>>, <<>>, "", "")
Data(view, status, data) == Response(view, status, "", data, <<>>, "", "")

Idle == [pc |-> "idle", model |-> "", user |-> NULL, pk |-> NULL]

Init ==
  /\ users = UserIds
  /\ recipe = << >>
  /\ next_pk = 1
  /\ ingredientrecipe = {}
  /\ objects = [m \in Models |-> [p \in Pairs |-> 0]]
  /\ subscriptions = [p \in UserIds \X UserIds |-> 0]
  /\ response = Plain("", NULL)
  /\ inflight = [w \in Workers |-> Idle]

----------------------------------------------------------------------------
\* Queries of the ORM.

\* model.objects.filter(user=user, recipe__id=pk).exists()
Exists(model, user, pk) == objects[model][<<user, pk>>] > 0

\* model.objects.create(user=user, recipe=recipe).  The schema's only
\* uniqueness constraint is the ingredient's (name, measurement_unit): an
\* insert into favorite or shopping_cart is never refused for its pair.
Create(model, user, pk) ==
  [objects EXCEPT ![model][<<user, pk>>] = @ + 1]

\* obj.delete() on the queryset filter(user=user, recipe__id=pk)
Delete(model, user, pk) ==
  [objects EXCEPT ![model][<<user, pk>>] = 0]

\* Subscriptions.objects.create(user=user, author=author)
CreateSubscription(user, author) ==
  [subscriptions EXCEPT ![<<user, author>>] = @ + 1]

----------------------------------------------------------------------------
\* Referential actions of the schema (on_delete of each foreign key).

\* Mutant of CascadeRecipeEdges: on_delete=DO_NOTHING.
KeepRecipeEdges(objs, pk) == objs

\* shopping_cart.recipe and favorite.recipe: on_delete=CASCADE
CascadeRecipeEdges(objs, pk) ==
  [m \in Models |->
     [p \in Pairs |-> IF p[2] = pk THEN 0 ELSE objs[m][p]]]

\* ingredientrecipe.recipe: on_delete=CASCADE
CascadeRecipeIngredients(rows, pk) == {ir \in rows : ir.recipe # pk}

\* shopping_cart.user and favorite.user: on_delete=CASCADE
CascadeUserEdges(objs, u) ==
  [m \in Models |->
     [p \in Pairs |-> IF p[1] = u THEN 0 ELSE objs[m][p]]]

\* subscriptions.user and subscriptions.author: on_delete=CASCADE
CascadeUserSubscriptions(subs, u) ==
  [p \in UserIds \X UserIds |-> IF p[1] = u \/ p[2] = u THEN 0 ELSE subs[p]]

\* Mutant of SetNullAuthor: on_delete=CASCADE.
CascadeAuthor(rec, u) ==
  [r \in {x \in DOMAIN rec : rec[x].author # u} |-> rec[r]]

\* recipe.author: null=True, on_delete=SET_NULL
SetNullAuthor(rec, u) ==
  [r \in DOMAIN rec |->
     IF rec[r].author = u THEN [rec[r] EXCEPT !.author = NULL] ELSE rec[r]]

----------------------------------------------------------------------------
\* Recipes.

\* The IngredientRecipe rows the create serializer writes for a new recipe.
IngredientRows(pk, payload) ==
  { [recipe |-> pk, ingredient |-> payload[i].ingredient,
     amount |-> payload[i].amount] : i \in DOMAIN payload }

\* permission_classes = (IsOwnerOrReadOnly,) on an unsafe method
IsOwnerOrReadOnly(user, pk) == recipe[pk].author = user \/ is_staff(user)

\* POST /recipes/ : serializer.save(author=self.request.user)
perform_create(user, payload) ==
  /\ user \in users
  /\ next_pk <= MaxRecipes
  /\ recipe' = [r \in DOMAIN recipe \cup {next_pk} |->
                  IF r = next_pk THEN [author |-> user] ELSE recipe[r]]
  /\ ingredientrecipe' = ingredientrecipe \cup IngredientRows(next_pk, payload)
  /\ next_pk' = next_pk + 1
  /\ response' = Data("create", HTTP_201_CREATED,
                      <<next_pk>>)
  /\ UNCHANGED <<users, objects, subscriptions, inflight>>

\* DELETE /recipes/{pk}/ (ModelViewSet.destroy) with the schema's cascades
destroy(user, pk) ==
  /\ user \in users
  /\ IF pk \notin DOMAIN recipe
       THEN /\ response' = Plain("destroy", HTTP_404_NOT_FOUND)
            /\ UNCHANGED tables
       ELSE /\ IsOwnerOrReadOnly(user, pk)
            /\ recipe' = [r \in DOMAIN recipe \ {pk} |-> recipe[r]]
            /\ ingredientrecipe' = CascadeRecipeIngredients(ingredientrecipe, pk)
            /\ objects' = CascadeRecipeEdges(objects, pk)
            /\ response' = Plain("destroy", HTTP_204_NO_CONTENT)
            /\ UNCHANGED <<users, next_pk, subscriptions>>
  /\ UNCHANGED inflight

\* DELETE /users/{id}/ (UserViewSet.destroy) with the schema's cascades
destroy_user(user) ==
  /\ user \in users
  /\ users' = users \ {user}
  /\ recipe' = SetNullAuthor(recipe, user)
  /\ objects' = CascadeUserEdges(objects, user)
  /\ subscriptions' = CascadeUserSubscriptions(subscriptions, user)
  /\ response' = Plain("users.destroy", HTTP_204_NO_CONTENT)
  /\ UNCHANGED <<next_pk, ingredientrecipe, inflight>>

----------------------------------------------------------------------------
\* Membership toggles.

\* the viewset action that add_to / delete_from is called from
View(model) == IF model = Favorite THEN "favorite" ELSE "shopping_cart"

\* Mutant of add_to: the existence check of line 134 is left out.
add_to_unchecked(model, user, pk) ==
  /\ user \in users
  /\ IF pk \notin DOMAIN recipe
       THEN /\ response' = Plain(View(model), HTTP_404_NOT_FOUND)
            /\ UNCHANGED tables
       ELSE /\ objects' = Create(model, user, pk)
            /\ response' = Data(View(model), HTTP_201_CREATED, <<pk>>)
            /\ UNCHANGED <<users, recipe, next_pk, ingredientrecipe,
                           subscriptions>>
  /\ UNCHANGED inflight

\* Mutant of add_to: the row is written from pk, without the lookup of
\* line 137.
add_to_no_lookup(model, user, pk) ==
  /\ user \in users
  /\ IF Exists(model, user, pk)
       THEN /\ response' = Errors(View(model), HTTP_400_BAD_REQUEST,
                                  ALREADY_ADDED)
            /\ UNCHANGED tables
       ELSE /\ objects' = Create(model, user, pk)
            /\ response' = Data(View(model), HTTP_201_CREATED, <<pk>>)
            /\ UNCHANGED <<users, recipe, next_pk, ingredientrecipe,
                           subscriptions>>
  /\ UNCHANGED inflight

add_to(model, user, pk) ==
  /\ user \in users
  /\ IF Exists(model, user, pk)
       THEN /\ response' = Errors(View(model), HTTP_400_BAD_REQUEST, ALREADY_ADDED)
            /\ UNCHANGED tables
       ELSE IF pk \notin DOMAIN recipe
         THEN /\ response' = Plain(View(model), HTTP_404_NOT_FOUND)
              /\ UNCHANGED tables
         ELSE /\ objects' = Create(model, user, pk)
              /\ response' = Data(View(model), HTTP_201_CREATED, <<pk>>)
              /\ UNCHANGED <<users, recipe, next_pk, ingredientrecipe,
                             subscriptions>>
  /\ UNCHANGED inflight

\* Mutant of delete_from: a delete of nothing answers 204 like any other.
delete_from_silent(model, user, pk) ==
  /\ user \in users
  /\ objects' = Delete(model, user, pk)
  /\ response' = Plain(View(model), HTTP_204_NO_CONTENT)
  /\ UNCHANGED <<users, recipe, next_pk, ingredientrecipe, subscriptions,
                 inflight>>

delete_from(model, user, pk) ==
  /\ user \in users
  /\ IF Exists(model, user, pk)
       THEN /\ objects' = Delete(model, user, pk)
            /\ response' = Plain(View(model), HTTP_204_NO_CONTENT)
            /\ UNCHANGED <<users, recipe, next_pk, ingredientrecipe,
                           subscriptions>>
       ELSE /\ response' = Errors(View(model), HTTP_400_BAD_REQUEST, ALREADY_REMOVED)
            /\ UNCHANGED tables
  /\ UNCHANGED inflight

\* POST / DELETE /recipes/{pk}/shopping_cart/
shopping_cart(method, user, pk) ==
  IF method = "POST" THEN add_to(Shopping_cart, user, pk)
  ELSE delete_from(Shopping_cart, user, pk)

\* POST / DELETE /recipes/{pk}/favorite/
favorite(method, user, pk) ==
  IF method = "POST" THEN add_to(Favorite, user, pk)
  ELSE delete_from(Favorite, user, pk)

----------------------------------------------------------------------------
\* Shopping list.

\* recipe__in_shopping_cart__user=user : the join of an IngredientRecipe row
\* with Shopping_cart yields one joined row per matching cart row.
JoinCount(user, ir) == objects[Shopping_cart][<<user, ir.recipe>>]

Joined(user) == {ir \in ingredientrecipe : JoinCount(user, ir) > 0}

\* .values('ingredient__name', 'ingredient__measurement_unit')
GroupKey(ir) ==
  <<Ingredient[ir.ingredient].name, Ingredient[ir.ingredient].measurement_unit>>

RECURSIVE SumAmount(_, _)
\* .annotate(amount=Sum('amount')) over the joined rows of one group
SumAmount(rows, user) ==
  IF rows = {} THEN 0
  ELSE LET ir == CHOOSE x \in rows : TRUE
       IN ir.amount * JoinCount(user, ir) + SumAmount(rows \ {ir}, user)

\* .order_by('ingredient__name') : every order of the groups that ascends by
\* name; the order of two groups of one name is the database's choice.
Orderings(groups) ==
  { s \in [1..Cardinality(groups) -> groups] :
      \A i, j \in 1..Cardinality(groups) :
        i < j => /\ s[i] # s[j]
                 /\ NameRank(s[i][1]) <= NameRank(s[j][1]) }

\* the evaluated queryset `ingredients`, in one of its possible orders
Ingredients(user, order) ==
  [i \in DOMAIN order |->
     [name |-> order[i][1], measurement_unit |-> order[i][2],
      amount |-> SumAmount({ir \in Joined(user) : GroupKey(ir) = order[i]},
                           user)]]

file == "shopping_list.txt"

\* f'attachment; filename="{file}.txt"'
ContentDisposition == "attachment; filename=\"" \o file \o ".txt\""

\* Mutant of download_shopping_cart: the empty-cart check of lines 155-156
\* is left out.
download_unguarded(user) ==
  /\ user \in users
  /\ \E order \in Orderings({GroupKey(ir) : ir \in Joined(user)}) :
       response' = Response("download_shopping_cart", HTTP_200_OK, "", <<>>,
                            Ingredients(user, order),
                            "text/plain", ContentDisposition)
  /\ UNCHANGED <<tables, inflight>>

\* GET /recipes/download_shopping_cart/ ; shopping_list holds one element
\* per rendered line " - <name> (<unit>) -  - <amount>".
download_shopping_cart(user) ==
  /\ user \in users
  /\ IF ~ \E pk \in RecipeIds : Exists(Shopping_cart, user, pk)
       THEN response' = Plain("download_shopping_cart", HTTP_400_BAD_REQUEST)
       ELSE \E order \in Orderings({GroupKey(ir) : ir \in Joined(user)}) :
              response' = Response("download_shopping_cart", HTTP_200_OK, "", <<>>,
                                   Ingredients(user, order),
                                   "text/plain", ContentDisposition)
  /\ UNCHANGED <<tables, inflight>>

----------------------------------------------------------------------------
\* Subscriptions.

\* UserSubscribeSerializer.is_valid: a second subscription to the same
\* author is rejected.
is_valid(user, author) == subscriptions[<<user, author>>] = 0

\* Mutant of subscribe: serializer.is_valid of line 47 is not called.
subscribe_unvalidated(method, user, author_id) ==
  /\ user \in users
  /\ IF author_id \notin users
       THEN /\ response' = Plain("subscribe", HTTP_404_NOT_FOUND)
            /\ UNCHANGED tables
       ELSE IF method = "POST"
         THEN /\ subscriptions' = CreateSubscription(user, author_id)
              /\ response' = Data("subscribe", HTTP_201_CREATED, <<author_id>>)
              /\ UNCHANGED <<users, recipe, next_pk, ingredientrecipe, objects>>
         ELSE IF subscriptions[<<user, author_id>>] = 0
                THEN /\ response' = Plain("subscribe", HTTP_404_NOT_FOUND)
                     /\ UNCHANGED tables
                ELSE IF subscriptions[<<user, author_id>>] > 1
                  THEN /\ response' = Plain("subscribe",
                                            HTTP_500_INTERNAL_SERVER_ERROR)
                       /\ UNCHANGED tables
                  ELSE /\ subscriptions' =
                            [subscriptions EXCEPT ![<<user, author_id>>] = 0]
                       /\ response' = Plain("subscribe", HTTP_204_NO_CONTENT)
                       /\ UNCHANGED <<users, recipe, next_pk, ingredientrecipe,
                                      objects>>
  /\ UNCHANGED inflight

\* POST / DELETE /users/{id}/subscribe/
subscribe(method, user, author_id) ==
  /\ user \in users
  /\ IF author_id \notin users
       THEN /\ response' = Plain("subscribe", HTTP_404_NOT_FOUND)
            /\ UNCHANGED tables
       ELSE IF method = "POST"
         THEN IF ~ is_valid(user, author_id)
                THEN /\ response' = Plain("subscribe", HTTP_400_BAD_REQUEST)
                     /\ UNCHANGED tables
                ELSE /\ subscriptions' = CreateSubscription(user, author_id)
                     /\ response' = Data("subscribe", HTTP_201_CREATED, <<author_id>>)
                     /\ UNCHANGED <<users, recipe, next_pk, ingredientrecipe,
                                    objects>>
         ELSE IF subscriptions[<<user, author_id>>] = 0
                THEN /\ response' = Plain("subscribe", HTTP_404_NOT_FOUND)
                     /\ UNCHANGED tables
                ELSE IF subscriptions[<<user, author_id>>] > 1
                  THEN /\ response' = Plain("subscribe", HTTP_500_INTERNAL_SERVER_ERROR)
                       /\ UNCHANGED tables
                  ELSE /\ subscriptions' =
                            [subscriptions EXCEPT ![<<user, author_id>>] = 0]
                       /\ response' = Plain("subscribe", HTTP_204_NO_CONTENT)
                       /\ UNCHANGED <<users, recipe, next_pk, ingredientrecipe,
                                      objects>>
  /\ UNCHANGED inflight

RECURSIVE Subscribed(_, _)
\* User.objects.filter(subscriber__user=user): the authors up to id n, one
\* element per Subscriptions row of the join
Subscribed(user, n) ==
  IF n = 0 THEN << >>
  ELSE Subscribed(user, n - 1)
         \o [i \in 1..subscriptions[<<user, n>>] |-> n]

\* GET /users/subscriptions/
list_subscriptions(user) ==
  /\ user \in users
  /\ response' = Data("subscriptions", HTTP_200_OK, Subscribed(user, NumUsers))
  /\ UNCHANGED <<tables, inflight>>

----------------------------------------------------------------------------
\* Every handler runs from its first query to its response before the next
\* request is served.  Next: the recipe side of the API.
Next ==
  \/ \E user \in UserIds, payload \in Payloads : perform_create(user, payload)
  \/ \E user \in UserIds, pk \in RecipeIds : destroy(user, pk)
  \/ \E user \in UserIds : destroy_user(user)
  \/ \E method \in Methods, user \in UserIds, pk \in RecipeIds :
       shopping_cart(method, user, pk)
  \/ \E method \in Methods, user \in UserIds, pk \in RecipeIds :
       favorite(method, user, pk)
  \/ \E user \in UserIds : download_shopping_cart(user)

Spec == Init /\ [][Next]_vars

\* The user side of the API.
NextUsers ==
  \/ \E method \in Methods, user \in UserIds, author_id \in UserIds :
       subscribe(method, user, author_id)
  \/ \E user \in UserIds : list_subscriptions(user)
  \/ \E user \in UserIds : destroy_user(user)

SpecUsers == Init /\ [][NextUsers]_vars

----------------------------------------------------------------------------
\* Requests served by several workers at once.  A worker runs add_to one
\* database statement at a time; inflight[w] is what worker w holds between
\* two statements of add_to.

Finish(w) == inflight' = [inflight EXCEPT ![w] = Idle]

\* line 134: if model.objects.filter(user=user, recipe__id=pk).exists()
add_to_exists(w, model, user, pk) ==
  /\ inflight[w].pc = "idle"
  /\ user \in users
  /\ IF Exists(model, user, pk)
       THEN /\ response' = Errors(View(model), HTTP_400_BAD_REQUEST, ALREADY_ADDED)
            /\ UNCHANGED inflight
       ELSE /\ inflight' = [inflight EXCEPT ![w] =
                 [pc |-> "get", model |-> model, user |-> user, pk |-> pk]]
            /\ UNCHANGED response
  /\ UNCHANGED tables

\* line 137: recipe = get_object_or_404(Recipe, id=pk)
add_to_get(w) ==
  /\ inflight[w].pc = "get"
  /\ IF inflight[w].pk \notin DOMAIN recipe
       THEN /\ response' = Plain(View(inflight[w].model), HTTP_404_NOT_FOUND)
            /\ Finish(w)
       ELSE /\ inflight' = [inflight EXCEPT ![w].pc = "create"]
            /\ UNCHANGED response
  /\ UNCHANGED tables

\* lines 138-140: model.objects.create(user=user, recipe=recipe); the insert
\* is refused when a foreign key no longer has its row.
add_to_create(w) ==
  /\ inflight[w].pc = "create"
  /\ LET req == inflight[w] IN
     IF req.pk \in DOMAIN recipe /\ req.user \in users
       THEN /\ objects' = Create(req.model, req.user, req.pk)
            /\ response' = Data(View(req.model), HTTP_201_CREATED, <<req.pk>>)
       ELSE /\ response' = Plain(View(req.model), HTTP_500_INTERNAL_SERVER_ERROR)
            /\ UNCHANGED objects
  /\ Finish(w)
  /\ UNCHANGED <<users, recipe, next_pk, ingredientrecipe, subscriptions>>

\* A database that already holds recipes, all written by user 1.
InitConcurrent ==
  /\ users = UserIds
  /\ \E payload \in Payloads :
       /\ recipe = [pk \in RecipeIds |-> [author |-> 1]]
       /\ ingredientrecipe =
            UNION {IngredientRows(pk, payload) : pk \in RecipeIds}
  /\ next_pk = MaxRecipes + 1
  /\ objects = [m \in Models |-> [p \in Pairs |-> 0]]
  /\ subscriptions = [p \in UserIds \X UserIds |-> 0]
  /\ response = Plain("", NULL)
  /\ inflight = [w \in Workers |-> Idle]

\* Requests that differ in request.user touch different rows, so the
\* workers all serve the first NumClients users.
Clients == 1..NumClients

NextConcurrent ==
  \/ \E w \in Workers, model \in Models, user \in Clients, pk \in RecipeIds :
       add_to_exists(w, model, user, pk)
  \/ \E w \in Workers : add_to_get(w)
  \/ \E w \in Workers : add_to_create(w)
  \/ \E model \in Models, user \in Clients, pk \in RecipeIds :
       delete_from(model, user, pk)
  \/ \E user \in Clients : download_shopping_cart(user)
  \/ \E user \in Clients, pk \in RecipeIds : destroy(user, pk)

SpecConcurrent == InitConcurrent /\ [][NextConcurrent]_vars

----------------------------------------------------------------------------
\* Properties.

Count(model, user, pk) == objects[model][<<user, pk>>]

CartIsEmpty(user) == \A pk \in RecipeIds : Count(Shopping_cart, user, pk) = 0

\* C1: an add for a pair (user, recipe) that succeeds leaves exactly one row
\* for the pair, and an add that finds a row for the pair answers 400 with
\* the 'already added' errors message and changes no table; so a second add
\* right after a successful one gets the duplicate error and the pair still
\* has one row.
C1_SecondAddIsDuplicate ==
  [][\A model \in Models, user \in UserIds, pk \in RecipeIds :
       add_to(model, user, pk) =>
         IF Exists(model, user, pk)
           THEN /\ response'.status = HTTP_400_BAD_REQUEST
                /\ response'.errors = ALREADY_ADDED
                /\ UNCHANGED tables
                /\ Count(model, user, pk) = 1
           ELSE response'.status = HTTP_201_CREATED =>
                  objects'[model][<<user, pk>>] = 1]_vars

C1_Witness ==
  /\ response.view \in {"favorite", "shopping_cart"}
  /\ response.status = HTTP_400_BAD_REQUEST
  /\ response.errors = ALREADY_ADDED
  /\ \E model \in Models, p \in Pairs : objects[model][p] = 1

\* C2: the Favorite table and the Shopping_cart table each hold at most one
\* row per (user, recipe) pair, whatever the interleaving of the requests.
C2_AtMostOneRowPerPair ==
  \A model \in Models, p \in Pairs : objects[model][p] <= 1

\* C3: a remove for a pair without a row answers 400 with the 'already
\* removed' errors message and changes no table.
C3_RemoveOfNothing ==
  [][\A model \in Models, user \in UserIds, pk \in RecipeIds :
       (delete_from(model, user, pk) /\ ~ Exists(model, user, pk)) =>
         /\ response'.status = HTTP_400_BAD_REQUEST
         /\ response'.errors = ALREADY_REMOVED
         /\ UNCHANGED tables]_vars

C3_Witness ==
  /\ response.view \in {"favorite", "shopping_cart"}
  /\ response.status = HTTP_400_BAD_REQUEST
  /\ response.errors = ALREADY_REMOVED
  /\ \E pk \in DOMAIN recipe : \E user \in users :
       Count(Favorite, user, pk) = 0 /\ Count(Shopping_cart, user, pk) = 0

\* The shopping list the claim C4 describes, read off the tables.
InCart(user) == {pk \in DOMAIN recipe : Count(Shopping_cart, user, pk) > 0}

CartRows(user) == {ir \in ingredientrecipe : ir.recipe \in InCart(user)}

RECURSIVE Total(_)
Total(rows) ==
  IF rows = {} THEN 0
  ELSE LET ir == CHOOSE x \in rows : TRUE IN ir.amount + Total(rows \ {ir})

IsListOfCart(list, user) ==
  /\ {<<list[i].name, list[i].measurement_unit>> : i \in DOMAIN list}
       = {GroupKey(ir) : ir \in CartRows(user)}
  /\ \A i, j \in DOMAIN list :
       i < j => /\ <<list[i].name, list[i].measurement_unit>>
                     # <<list[j].name, list[j].measurement_unit>>
                /\ NameRank(list[i].name) <= NameRank(list[j].name)
  /\ \A i \in DOMAIN list :
       list[i].amount =
         Total({ir \in CartRows(user) :
                  GroupKey(ir) = <<list[i].name, list[i].measurement_unit>>})

\* C4: for a user with a non-empty cart the download lists each (name, unit)
\* pair of the cart's recipes exactly once, with the sum of the amounts of
\* its IngredientRecipe rows, in ascending order of name.
C4_ListIsSumOfCart ==
  [][\A user \in UserIds :
       (download_shopping_cart(user) /\ ~ CartIsEmpty(user)) =>
         /\ response'.status = HTTP_200_OK
         /\ IsListOfCart(response'.shopping_list, user)]_vars

\* C5: a download for a user with an empty cart answers 400, carries no
\* shopping list and changes no table.
C5_EmptyCart ==
  [][\A user \in UserIds :
       (download_shopping_cart(user) /\ CartIsEmpty(user)) =>
         /\ response'.status = HTTP_400_BAD_REQUEST
         /\ response'.shopping_list = << >>
         /\ response'.content_type = ""
         /\ response'.disposition = ""
         /\ UNCHANGED tables]_vars

C5_Witness ==
  /\ response.view = "download_shopping_cart"
  /\ response.status = HTTP_400_BAD_REQUEST
  /\ \E user \in users : CartIsEmpty(user)
  /\ \E user \in users : ~ CartIsEmpty(user)

\* No association row references a recipe that does not exist.
NoDanglingRecipe ==
  /\ \A model \in Models, p \in Pairs :
       objects[model][p] > 0 => p[2] \in DOMAIN recipe
  /\ \A ir \in ingredientrecipe : ir.recipe \in DOMAIN recipe

\* C6: deleting a recipe removes its Favorite, Shopping_cart and
\* IngredientRecipe rows and deletes no user; after every step no
\* association row references a recipe that does not exist.
C6_RecipeDeleteCascades ==
  [][/\ \A user \in UserIds, pk \in DOMAIN recipe :
          destroy(user, pk) =>
            /\ pk \notin DOMAIN recipe'
            /\ \A model \in Models, u \in UserIds :
                 objects'[model][<<u, pk>>] = 0
            /\ \A ir \in ingredientrecipe' : ir.recipe # pk
            /\ users' = users
     /\ NoDanglingRecipe']_vars

\* a recipe has been deleted, its author is still a user, and another
\* recipe still has its rows
C6_Witness ==
  /\ response.view = "destroy"
  /\ response.status = HTTP_204_NO_CONTENT
  /\ \E pk \in 1..(next_pk - 1) : pk \notin DOMAIN recipe
  /\ users = UserIds
  /\ \E pk \in DOMAIN recipe :
       /\ Count(Favorite, recipe[pk].author, pk) = 1
       /\ Count(Shopping_cart, recipe[pk].author, pk) = 1

\* C7: deleting a user leaves the set of recipes as it was and sets the
\* author of each recipe the user wrote to null.
C7_UserDeleteNullsAuthor ==
  [][\A user \in UserIds :
       destroy_user(user) =>
         /\ DOMAIN recipe' = DOMAIN recipe
         /\ \A pk \in DOMAIN recipe :
              recipe'[pk].author =
                IF recipe[pk].author = user THEN NULL ELSE recipe[pk].author]_vars

C7_Witness ==
  /\ response.view = "users.destroy"
  /\ \E pk \in DOMAIN recipe : recipe[pk].author = NULL
  /\ \E pk \in DOMAIN recipe : recipe[pk].author \in users

\* C8: an add for a recipe id that no recipe has answers 404 and changes no
\* table.
C8_AddOfMissingRecipe ==
  [][\A model \in Models, user \in UserIds, pk \in RecipeIds :
       (add_to(model, user, pk) /\ pk \notin DOMAIN recipe) =>
         /\ response'.status = HTTP_404_NOT_FOUND
         /\ UNCHANGED tables]_vars

C8_Witness ==
  /\ response.view \in {"favorite", "shopping_cart"}
  /\ response.status = HTTP_404_NOT_FOUND
  /\ \E pk \in 1..(next_pk - 1) : pk \notin DOMAIN recipe

C10_AttachmentName ==
  (response.view = "download_shopping_cart" /\ response.status = HTTP_200_OK)
    => /\ response.content_type = "text/plain"
       /\ response.disposition = "attachment; filename=\"shopping_list.txt\""

====
